---- MODULE Spec2Model ----
(***************************************************************************)
(* Model of the two scripts of the repository:                             *)
(*   scripts/convert_word_html.py  (Word HTML -> Markdown / plain text)    *)
(*   scripts/extract_section.py    (Markdown -> paper records -> report)   *)
(*                                                                         *)
(* Text is a sequence of symbols.  A symbol is one character ("#", " ",    *)
(* "|", "\n", ...) or one fixed Chinese word of the scripts' patterns,     *)
(* written in ASCII:                                                       *)
(*   fuza 复杂  ziran 自然  guocheng 过程  jili 机理  jieshi 揭示           *)
(*   diman 地幔  dizhen 地震  liuti 流体  huoshan 火山  wenzhang 文章       *)
(*   wenti 问题  yuanyin 原因  jizhi 机制  fangfa 方法  fenxi 分析          *)
(*   moxing 模型  suanfa 算法  jiqixuexi 机器学习  shenduxuexi 深度学习     *)
(*   shujuwajue 数据挖掘  tongji 统计  ji 及  jishu 技术  hexin 核心        *)
(*   zhuyao 主要  qierukou 研究切入口  mubiao 研究目标                      *)
(*   fwcolon ：  fwlparen （  fwrparen ）                                   *)
(* Longer words of the patterns are sequences of these (核心问题 is        *)
(* <<hexin, wenti>>), so that the patterns overlap as they do in the code. *)
(***************************************************************************)
EXTENDS Integers, Sequences, FiniteSets, TLC

VARIABLES
    script,       \* which script's main() runs: "extract" or "convert"
    pc,           \* position inside main()
    inputExists,  \* whether the declared input file exists
    file,         \* what the input file holds: Markdown text, or the tree
                  \* the HTML file parses to
    rawMd,        \* convert: what html2text's h.handle() returns
    rawText,      \* convert: what soup.get_text() returns
    io,           \* the I/O steps performed so far, in order
    exitCode,     \* -1 while running, else the process's exit status
    content,      \* extract: the loaded Markdown
    section,      \* extract: find_section's result and main's section_content
    papers,       \* extract: the list of paper records
    k,            \* extract: number of papers the detail loop has processed
    html,         \* convert: html_content, parsed
    cleaned,      \* convert: cleaned_html
    markdown,     \* convert: markdown_content
    text          \* convert: text_content

vars == <<script, pc, inputExists, file, rawMd, rawText, io, exitCode, content,
          section, papers, k, html, cleaned, markdown, text>>

(***************************************************************************)
(* Strings                                                                 *)
(***************************************************************************)
\* str.strip() / \s : the whitespace symbols of the model's alphabet
WS == {" ", "\t", "\n"}

IsWs(c) == c \in WS

RECURSIVE LStrip(_)
LStrip(s) == IF s # <<>> /\ IsWs(Head(s)) THEN LStrip(Tail(s)) ELSE s

RECURSIVE RStrip(_)
RStrip(s) ==
    IF s # <<>> /\ IsWs(s[Len(s)]) THEN RStrip(SubSeq(s, 1, Len(s) - 1)) ELSE s

\* str.strip()
Strip(s) == RStrip(LStrip(s))

\* s.startswith(p)
StartsWith(s, p) == Len(p) <= Len(s) /\ SubSeq(s, 1, Len(p)) = p

\* p occurs in s at index i (1-based)
OccursAt(s, p, i) ==
    i >= 1 /\ i + Len(p) - 1 <= Len(s) /\ SubSeq(s, i, i + Len(p) - 1) = p

\* p in s
Contains(s, p) == \E i \in 1..(Len(s) + 1) : OccursAt(s, p, i)

\* s[i:] with i 1-based
From(s, i) == SubSeq(s, i, Len(s))

\* t is a contiguous substring of s
IsSubstring(t, s) == Contains(s, t)

\* index of the first symbol of s in set cs, or Len(s) + 1
RECURSIVE FirstIn(_, _)
FirstIn(s, cs) ==
    IF s = <<>> THEN 1
    ELSE IF Head(s) \in cs THEN 1 ELSE 1 + FirstIn(Tail(s), cs)

\* content.split('\n')
RECURSIVE SplitLines(_)
SplitLines(s) ==
    LET i == FirstIn(s, {"\n"})
    IN  IF i > Len(s) THEN <<s>>
        ELSE <<SubSeq(s, 1, i - 1)>> \o SplitLines(From(s, i + 1))

\* '\n'.join(lines)
RECURSIVE JoinLines(_)
JoinLines(ls) ==
    IF ls = <<>> THEN <<>>
    ELSE IF Len(ls) = 1 THEN ls[1]
    ELSE ls[1] \o <<"\n">> \o JoinLines(Tail(ls))

\* number of leading '#' of s: len(re.match(r'^(#+)', s).group(1)), 0 when
\* the pattern does not match
RECURSIVE LeadingHashes(_)
LeadingHashes(s) ==
    IF s # <<>> /\ Head(s) = "#" THEN 1 + LeadingHashes(Tail(s)) ELSE 0

(***************************************************************************)
(* extract_section.py : find_section                                       *)
(***************************************************************************)
\* target_section_title, 复杂自然过程机理揭示
Title == <<"fuza", "ziran", "guocheng", "jili", "jieshi">>

\* the words of p occur in s in order, anything between them: .*w1.*w2 ... .*
RECURSIVE InOrder(_, _)
InOrder(s, p) ==
    IF p = <<>> THEN TRUE
    ELSE LET i == FirstIn(s, {Head(p)})
         IN  i <= Len(s) /\ InOrder(From(s, i + 1), Tail(p))

\* re.match(patterns[n], s) for the stripped line s.  '#+' is greedy and the
\* title does not start with '#', so pattern 1 has one way to match.
PatternMatches(n, s) ==
    CASE n = 1 -> /\ LeadingHashes(s) >= 1
                  /\ Strip(From(s, LeadingHashes(s) + 1)) = Title
      [] n = 2 -> /\ LeadingHashes(s) >= 1
                  /\ Contains(From(s, 2), Title)
      [] n = 3 -> /\ LeadingHashes(s) >= 1
                  /\ InOrder(From(s, 2), Title)
      [] n = 4 -> Contains(s, Title)

NumPatterns == 4

\* first line (0-based) whose stripped text matches pattern n, or -1
FirstMatchLine(n, lines) ==
    LET hits == {i \in 1..Len(lines) : PatternMatches(n, Strip(lines[i]))}
    IN  IF hits = {} THEN -1
        ELSE (CHOOSE i \in hits : \A j \in hits : i <= j) - 1

\* the loop over patterns: section_start, or -1 for None
SectionStart(lines) ==
    LET ns == {n \in 1..NumPatterns : FirstMatchLine(n, lines) >= 0}
    IN  IF ns = {} THEN -1
        ELSE FirstMatchLine(CHOOSE n \in ns : \A m \in ns : n <= m, lines)

\* re.match(r'^#+\s', s)
IsHeader(s) ==
    LET h == LeadingHashes(s)
    IN  h >= 1 /\ h < Len(s) /\ IsWs(s[h + 1])

\* the end of the section that starts at line start (0-based) with level lvl
SectionEnd(lines, start, lvl) ==
    LET ends == {i \in (start + 1)..(Len(lines) - 1) :
                    /\ IsHeader(Strip(lines[i + 1]))
                    /\ LeadingHashes(Strip(lines[i + 1])) <= lvl}
    IN  IF ends = {} THEN Len(lines)
        ELSE CHOOSE i \in ends : \A j \in ends : i <= j

\* complex_keywords
ComplexKeywords ==
    { <<"fuza">>, <<"ziran", "guocheng">>, <<"jili">>, <<"jieshi">>,
      <<"diman">>, <<"dizhen">>, <<"liuti">>, <<"huoshan">> }

HasKeyword(s) == \E kw \in ComplexKeywords : Contains(s, kw)

\* the heading-delimited blocks of the fallback scan, each a sequence of
\* lines: a header line (tested on the raw line) starts a new block
RECURSIVE Blocks(_, _)
Blocks(lines, cur) ==
    IF lines = <<>> THEN <<cur>>
    ELSE IF IsHeader(Head(lines))
         THEN <<cur>> \o Blocks(Tail(lines), <<Head(lines)>>)
         ELSE Blocks(Tail(lines), Append(cur, Head(lines)))

\* potential_sections: the non-empty blocks whose joined text has a keyword
PotentialSections(lines) ==
    SelectSeq(Blocks(lines, <<>>),
              LAMBDA b : b # <<>> /\ HasKeyword(JoinLines(b)))

\* find_section(content, Title).  how: "heading" (a pattern matched),
\* "keywords" (the block fallback), "none" (returns None) or "raise"
\* (re.match(r'^(#+)', lines[section_start]) is None and .group raises
\* AttributeError).  start/end are the 0-based line range [start, end).
find_section(c) ==
    LET lines == SplitLines(c)
        start == SectionStart(lines)
    IN  IF start = -1
        THEN IF PotentialSections(lines) # <<>>
             THEN [how |-> "keywords", start |-> -1, end |-> -1,
                   text |-> JoinLines(PotentialSections(lines)[1])]
             ELSE [how |-> "none", start |-> -1, end |-> -1, text |-> <<>>]
        ELSE IF LeadingHashes(lines[start + 1]) = 0
             THEN [how |-> "raise", start |-> start, end |-> -1, text |-> <<>>]
             ELSE LET end == SectionEnd(lines, start,
                                        LeadingHashes(lines[start + 1]))
                  IN  [how |-> "heading", start |-> start, end |-> end,
                       text |-> JoinLines(SubSeq(lines, start + 1, end))]

(***************************************************************************)
(* extract_section.py : extract_table_cells_from_line                      *)
(***************************************************************************)
\* least element of a non-empty set of integers, 0 for the empty set
Least(S) == IF S = {} THEN 0 ELSE CHOOSE i \in S : \A j \in S : i <= j

\* re.split(r'\s*\|\s*(?=(?:[^|]*\|)*[^|]*$)', line).  The lookahead holds
\* at every position of a line (any rest is pipe-free runs separated by
\* pipes), so the line is split at every pipe, the whitespace around the
\* pipe being part of the separator.
RECURSIVE SplitPipes(_)
SplitPipes(s) ==
    LET i == FirstIn(s, {"|"})
    IN  IF i > Len(s) THEN <<s>>
        ELSE <<RStrip(SubSeq(s, 1, i - 1))>> \o SplitPipes(LStrip(From(s, i + 1)))

\* s up to its first pipe (all of s when it has none)
Segment(s) == SubSeq(s, 1, FirstIn(s, {"|"}) - 1)

HasPipe(s) == FirstIn(s, {"|"}) <= Len(s)

Digits == {"1", "2"}

RECURSIVE DigitRun(_)
DigitRun(s) == IF s # <<>> /\ Head(s) \in Digits THEN 1 + DigitRun(Tail(s)) ELSE 0

\* the maximal star-free run of s from index i
StarFree(s, i) == SubSeq(s, i, i + FirstIn(From(s, i), {"*"}) - 2)

\* '**' X '**' at index i with X star-free: X, as a one-element sequence,
\* or <<>> when s has no such construct at i
BoldAt(s, i) ==
    LET x == StarFree(s, i + 2)
        j == i + 2 + Len(x)
    IN  IF OccursAt(s, <<"*", "*">>, i) /\ OccursAt(s, <<"*", "*">>, j)
        THEN <<x>> ELSE <<>>

ContainsAny(s, kws) == \E kw \in kws : Contains(s, kw)

\* problem_patterns[0]: (?:（\d+）[^|]*\|)\s*([^|]+?)(?=\s*\|) matched at i.
\* The group is the text between the first two pipes after the date; a
\* whitespace-only cell is captured as one whitespace symbol and an empty
\* cell does not match.  The result is group(1).strip() in a one-element
\* sequence, <<>> for no match at i.
DateCellAt(s, i) ==
    LET d == DigitRun(From(s, i + 1))
        r == From(s, i + 2 + d)           \* after the closing bracket
        c == From(r, FirstIn(r, {"|"}) + 1) \* after the first pipe
    IN  IF /\ i <= Len(s) /\ s[i] = "fwlparen" /\ d >= 1
           /\ i + 1 + d <= Len(s) /\ s[i + 1 + d] = "fwrparen"
           /\ HasPipe(r) /\ HasPipe(c) /\ Segment(c) # <<>>
        THEN <<Strip(Segment(c))>> ELSE <<>>

ProblemKeywords == { <<"wenti">>, <<"yuanyin">>, <<"jizhi">> }

\* problem_patterns[1]: \*\*([^*]*(?:问题|原因|机制)[^*]*)\*\* matched at i
BoldProblemAt(s, i) ==
    IF BoldAt(s, i) # <<>> /\ ContainsAny(BoldAt(s, i)[1], ProblemKeywords)
    THEN <<Strip(BoldAt(s, i)[1])>> ELSE <<>>

MethodBoldKeywords == { <<"fangfa">>, <<"fenxi">>, <<"moxing">>, <<"suanfa">> }

\* method_patterns[0]: (\*\*[^*]*(?:方法|分析|模型|算法)[^*]*\*\*[^|]*) at i:
\* the whole match, which runs on to the next pipe, in a one-element sequence
BoldMethodAt(s, i) ==
    IF BoldAt(s, i) # <<>> /\ ContainsAny(BoldAt(s, i)[1], MethodBoldKeywords)
    THEN LET e == i + 4 + Len(BoldAt(s, i)[1])   \* just after the closing '**'
         IN  <<SubSeq(s, i, e - 1) \o Segment(From(s, e))>>
    ELSE <<>>

MethodTerms ==
    { <<"jiqixuexi">>, <<"shenduxuexi">>, <<"shujuwajue">>, <<"tongji", "fenxi">> }

\* method_patterns[1]: ((?:机器学习|深度学习|数据挖掘|统计分析)[^|]*) at i
TermAt(s, i) ==
    IF \E t \in MethodTerms : OccursAt(s, t, i)
    THEN <<Segment(From(s, i))>> ELSE <<>>

\* ' '.join(matches)
RECURSIVE JoinSpace(_)
JoinSpace(ms) ==
    IF ms = <<>> THEN <<>>
    ELSE IF Len(ms) = 1 THEN ms[1]
    ELSE ms[1] \o <<" ">> \o JoinSpace(Tail(ms))


\* A pattern is a record: its kind and, for the labelled kinds, its words.
\* MatchAt(p, s, i) is the text the code takes from the match of p that
\* starts at index i of s, in a one-element sequence, or <<>> when p does
\* not match there.
MatchAtCells(p, s, i) ==
    CASE p.kind = "date" -> DateCellAt(s, i)
      [] p.kind = "boldproblem" -> BoldProblemAt(s, i)
      [] p.kind = "boldmethod" -> BoldMethodAt(s, i)
      [] p.kind = "term" -> TermAt(s, i)

\* re.search: the match at the leftmost index that matches, <<>> for None
SearchCells(p, s) ==
    LET hits == {i \in 1..Len(s) : MatchAtCells(p, s, i) # <<>>}
    IN  IF hits = {} THEN <<>> ELSE MatchAtCells(p, s, Least(hits))

\* re.findall: the successive non-overlapping matches from index from on
RECURSIVE FindAll(_, _, _)
FindAll(p, s, from) ==
    LET hits == {i \in from..Len(s) : MatchAtCells(p, s, i) # <<>>}
    IN  IF hits = {} THEN <<>>
        ELSE LET i == Least(hits)
             IN  <<MatchAtCells(p, s, i)[1]>>
                 \o FindAll(p, s, i + Len(MatchAtCells(p, s, i)[1]))

problem_patterns == << [kind |-> "date"], [kind |-> "boldproblem"] >>

cell_method_patterns == << [kind |-> "boldmethod"], [kind |-> "term"] >>

\* the loop over problem_patterns: the first pattern that matches decides
RECURSIVE CoreProblemByPatterns(_, _)
CoreProblemByPatterns(ps, s) ==
    IF ps = <<>> THEN <<>>
    ELSE IF SearchCells(Head(ps), s) # <<>> THEN SearchCells(Head(ps), s)[1]
    ELSE CoreProblemByPatterns(Tail(ps), s)

\* the loop over method_patterns: the first pattern with matches decides
RECURSIVE MethodsByPatterns(_, _)
MethodsByPatterns(ps, s) ==
    IF ps = <<>> THEN <<>>
    ELSE IF FindAll(Head(ps), s, 1) # <<>> THEN JoinSpace(FindAll(Head(ps), s, 1))
    ELSE MethodsByPatterns(Tail(ps), s)

\* re.sub(r'\s+', ' ', v)
RECURSIVE CollapseWs(_)
CollapseWs(v) ==
    IF v = <<>> THEN <<>>
    ELSE IF IsWs(Head(v)) THEN <<" ">> \o CollapseWs(LStrip(v))
    ELSE <<Head(v)>> \o CollapseWs(Tail(v))

\* re.sub(r'\*\*', '', v): the pairs are removed left to right, in one pass
RECURSIVE RemoveBold(_)
RemoveBold(v) ==
    IF v = <<>> THEN <<>>
    ELSE IF StartsWith(v, <<"*", "*">>) THEN RemoveBold(From(v, 3))
    ELSE <<Head(v)>> \o RemoveBold(Tail(v))

\* "Clean up the extracted text": whitespace first, then the bold markers
CleanCell(v) == IF v = <<>> THEN v ELSE RemoveBold(Strip(CollapseWs(v)))

\* parts[n] of the split (0-based), '' when there is no such part
Part(parts, n) == IF n + 1 <= Len(parts) THEN Strip(parts[n + 1]) ELSE <<>>

MinColumns == 6

\* extract_table_cells_from_line with the columns taken one place early
extract_table_cells_shifted(line) ==
    LET parts == SplitPipes(line)
        raw == IF Len(parts) >= MinColumns
               THEN [core_problem |-> Part(parts, 0),
                     data_source |-> Part(parts, 1),
                     data_mining_methods |-> Part(parts, 2),
                     conclusion |-> Part(parts, 3),
                     summary |-> Part(parts, 4)]
               ELSE [core_problem |-> CoreProblemByPatterns(problem_patterns, line),
                     data_source |-> <<>>,
                     data_mining_methods |-> MethodsByPatterns(cell_method_patterns, line),
                     conclusion |-> <<>>,
                     summary |-> <<>>]
    IN  [f \in DOMAIN raw |-> CleanCell(raw[f])]

extract_table_cells_from_line(line) ==
    LET parts == SplitPipes(line)
        raw == IF Len(parts) >= MinColumns
               THEN [core_problem |-> Part(parts, 1),
                     data_source |-> Part(parts, 2),
                     data_mining_methods |-> Part(parts, 3),
                     conclusion |-> Part(parts, 4),
                     summary |-> Part(parts, 5)]
               ELSE [core_problem |-> CoreProblemByPatterns(problem_patterns, line),
                     data_source |-> <<>>,
                     data_mining_methods |-> MethodsByPatterns(cell_method_patterns, line),
                     conclusion |-> <<>>,
                     summary |-> <<>>]
    IN  [f \in DOMAIN raw |-> CleanCell(raw[f])]

(***************************************************************************)
(* extract_section.py : extract_research_details                           *)
(***************************************************************************)
\* [：:]
Colons == {":", "fwcolon"}

\* LABEL[：:]\s*([^|]+?)(?:\s*\||\s*$) with the label ending just before
\* index c of s: the lazy group is the rest of the cell after the colon,
\* without the whitespace around it; a whitespace-only rest is captured as
\* one whitespace symbol, and an empty rest does not match.  The result is
\* group(1).strip().
LabelledValueAt(s, c) ==
    IF c <= Len(s) /\ s[c] \in Colons /\ Segment(From(s, c + 1)) # <<>>
    THEN <<Strip(Segment(From(s, c + 1)))>> ELSE <<>>

\* entry_patterns[0..3], method_patterns[0..3] matched at i
LabelAt(words, s, i) ==
    IF OccursAt(s, words, i) THEN LabelledValueAt(s, i + Len(words)) ELSE <<>>

\* entry_patterns[4]: \*\*([^*]+问题[^*]*)\*\* matched at i
BoldQuestionAt(s, i) ==
    IF /\ BoldAt(s, i) # <<>>
       /\ \E j \in 2..Len(BoldAt(s, i)[1]) : BoldAt(s, i)[1][j] = "wenti"
    THEN <<Strip(BoldAt(s, i)[1])>> ELSE <<>>

\* method_patterns[4]: \*\*方法[^*]*\*\*[：:]\s*([^|]+?)(?:\s*\||\s*$) at i
BoldLabelAt(s, i) ==
    IF BoldAt(s, i) # <<>> /\ StartsWith(BoldAt(s, i)[1], <<"fangfa">>)
    THEN LabelledValueAt(s, i + 4 + Len(BoldAt(s, i)[1])) ELSE <<>>

\* tech_patterns[0..5]: (KEYWORD[^|]*) matched at i, stripped
TechAt(words, s, i) ==
    IF OccursAt(s, words, i) THEN <<Strip(Segment(From(s, i)))>> ELSE <<>>

\* tech_patterns[6]: (分析[^|]*方法[^|]*) matched at i, stripped
AnalysisMethodAt(s, i) ==
    IF /\ OccursAt(s, <<"fenxi">>, i)
       /\ Contains(Segment(From(s, i + 1)), <<"fangfa">>)
    THEN <<Strip(Segment(From(s, i)))>> ELSE <<>>

MatchAt(p, s, i) ==
    CASE p.kind = "label" -> LabelAt(p.words, s, i)
      [] p.kind = "boldquestion" -> BoldQuestionAt(s, i)
      [] p.kind = "boldlabel" -> BoldLabelAt(s, i)
      [] p.kind = "tech" -> TechAt(p.words, s, i)
      [] p.kind = "analysismethod" -> AnalysisMethodAt(s, i)

\* re.search(pattern, content): the match at the leftmost index, <<>> for None
Search(p, s) ==
    LET hits == {i \in 1..Len(s) : MatchAt(p, s, i) # <<>>}
    IN  IF hits = {} THEN <<>> ELSE MatchAt(p, s, Least(hits))

Label(words) == [kind |-> "label", words |-> words]

Tech(words) == [kind |-> "tech", words |-> words]

entry_patterns ==
    << Label(<<"qierukou">>), Label(<<"hexin", "wenti">>), Label(<<"mubiao">>),
       Label(<<"zhuyao", "wenti">>), [kind |-> "boldquestion", words |-> <<>>] >>

method_patterns ==
    << Label(<<"shujuwajue", "ji", "fenxi", "fangfa">>), Label(<<"fangfa">>),
       Label(<<"fenxi", "fangfa">>), Label(<<"jishu">>),
       [kind |-> "boldlabel", words |-> <<>>] >>

tech_patterns ==
    << Tech(<<"jiqixuexi">>), Tech(<<"shenduxuexi">>), Tech(<<"shujuwajue">>),
       Tech(<<"tongji", "fenxi">>), Tech(<<"moxing">>), Tech(<<"suanfa">>),
       [kind |-> "analysismethod", words |-> <<>>] >>

\* "Clean up markdown and extra whitespace": bold markers first, then runs
CleanDetail(v) == CollapseWs(RemoveBold(v))

\* for pattern in patterns: match = re.search(...); if match: ...; break
\* The value of the first pattern that matches, in a one-element sequence;
\* <<>> when no pattern matches.
RECURSIVE FirstMatch(_, _)
FirstMatch(ps, s) ==
    IF ps = <<>> THEN <<>>
    ELSE IF Search(Head(ps), s) # <<>> THEN Search(Head(ps), s)
    ELSE FirstMatch(Tail(ps), s)

\* research_entry
ResearchEntry(core_problem, c) ==
    IF core_problem # <<>> THEN core_problem
    ELSE IF FirstMatch(entry_patterns, c) # <<>>
         THEN CleanDetail(FirstMatch(entry_patterns, c)[1])
         ELSE <<>>

\* methods after the labelled patterns
LabelledMethods(data_methods, c) ==
    IF data_methods # <<>> THEN data_methods
    ELSE IF FirstMatch(method_patterns, c) # <<>>
         THEN CleanDetail(FirstMatch(method_patterns, c)[1])
         ELSE <<>>

\* methods: "If still no methods found, look for specific technical terms"
Methods(data_methods, c) ==
    IF LabelledMethods(data_methods, c) # <<>>
    THEN LabelledMethods(data_methods, c)
    ELSE IF FirstMatch(tech_patterns, c) # <<>>
         THEN FirstMatch(tech_patterns, c)[1]
         ELSE <<>>

\* extract_research_details re-parsing the raw row whatever the record holds
extract_research_details_reparsed(paper) ==
    [research_entry_point |-> ResearchEntry(<<>>, paper.context),
     data_mining_methods |-> Methods(<<>>, paper.context)]

extract_research_details(paper) ==
    [research_entry_point |-> ResearchEntry(paper.core_problem, paper.context),
     data_mining_methods |-> Methods(paper.data_mining_methods, paper.context)]

(***************************************************************************)
(* extract_section.py : extract_papers_from_section                        *)
(***************************************************************************)
\* re.match(r'^\[([^\]]+)\]\(([^)]+)\)', line): the title runs to the first
\* ']' and the url to the first ')' after "](", both non-empty
LinkMatch(s) ==
    LET r1 == Tail(s)                    \* after '['
        i == FirstIn(r1, {"]"})
        r2 == From(r1, i + 2)            \* after "]("
        j == FirstIn(r2, {")"})
    IN  IF /\ s # <<>> /\ Head(s) = "["
           /\ i >= 2 /\ i + 1 <= Len(r1) /\ r1[i + 1] = "("
           /\ j >= 2 /\ j <= Len(r2)
        THEN [ok |-> TRUE, title |-> SubSeq(r1, 1, i - 1), url |-> SubSeq(r2, 1, j - 1)]
        ELSE [ok |-> FALSE, title |-> <<>>, url |-> <<>>]

\* "Skip empty lines, table headers, and separators"
Skipped(line) ==
    \/ line = <<>>
    \/ StartsWith(line, <<"-", "-", "-", "|">>)
    \/ StartsWith(line, <<"*", "*", "wenzhang", "*", "*">>)

\* Paper with the row's cleaned text kept as the context
PaperCleanedContext(line, n) ==
    extract_table_cells_from_line(line)
    @@ [title |-> LinkMatch(line).title, url |-> LinkMatch(line).url,
        context |-> CleanCell(line), number |-> n]

\* the record of one paper row: line is stripped, n its ordinal number
Paper(line, n) ==
    extract_table_cells_from_line(line)
    @@ [title |-> LinkMatch(line).title, url |-> LinkMatch(line).url,
        context |-> line, number |-> n]

\* PapersOf with the link looked for in the line as read, not stripped
RECURSIVE PapersOfUnstripped(_, _)
PapersOfUnstripped(lines, acc) ==
    IF lines = <<>> THEN acc
    ELSE LET line == Strip(Head(lines))
         IN  IF ~Skipped(line) /\ LinkMatch(Head(lines)).ok
             THEN PapersOfUnstripped(Tail(lines), Append(acc, Paper(line, Len(acc) + 1)))
             ELSE PapersOfUnstripped(Tail(lines), acc)

\* the loop of extract_papers_from_section over the lines still to read
RECURSIVE PapersOf(_, _)
PapersOf(lines, acc) ==
    IF lines = <<>> THEN acc
    ELSE LET line == Strip(Head(lines))
         IN  IF ~Skipped(line) /\ LinkMatch(line).ok
             THEN PapersOf(Tail(lines), Append(acc, Paper(line, Len(acc) + 1)))
             ELSE PapersOf(Tail(lines), acc)

extract_papers_from_section(section_content) ==
    PapersOf(SplitLines(section_content), <<>>)

(***************************************************************************)
(* convert_word_html.py : clean_mso_attributes, clean_html_content         *)
(*                                                                         *)
(* A tree is the sequence of body's descendants in document order (the     *)
(* order of find_all and of next_element).  A node is a record:            *)
(*   d      its depth below body (body's children have depth 0)            *)
(*   tag    the element's name, "#text" for a string, "#comment"           *)
(*   txt    the symbols of a string or comment                             *)
(*   attrs  the element's attributes, each [name, list, val]: val is the   *)
(*          value's symbols, or for a multi-valued attribute (class) the   *)
(*          sequence of its values                                         *)
(* The subtree of node i is i and the nodes after it that are deeper.      *)
(* Symbols of attribute values and styles: "mso", "Mso", "-", "word", ...  *)
(***************************************************************************)
\* str.lower() on one symbol
LowerSym(c) ==
    CASE c = "Mso" -> "mso"
      [] c = "Word" -> "word"
      [] OTHER -> c

\* value.lower()
Lower(v) == [i \in 1..Len(v) |-> LowerSym(v[i])]

\* ['mso-', 'microsoft', 'word', 'office'], for string attribute values
StrPatterns == { <<"mso", "-">>, <<"microsoft">>, <<"word">>, <<"office">> }

\* ['mso', 'microsoft', 'word', 'office'], for the values of a class list
ClassPatterns == { <<"mso">>, <<"microsoft">>, <<"word">>, <<"office">> }

\* ['mso-', 'microsoft', 'word'], for the text of a style element
StylePatterns == { <<"mso", "-">>, <<"microsoft">>, <<"word">> }

\* new_classes
KeptClasses(val) ==
    SelectSeq(val, LAMBDA cls : ~ContainsAny(Lower(cls), ClassPatterns))

\* an attribute is in attrs_to_remove
AttrRemoved(a) ==
    IF a.list THEN KeptClasses(a.val) = <<>> /\ a.val # <<>>
    ELSE ContainsAny(Lower(a.val), StrPatterns)

\* the attribute after the loop, when it stays
AttrKept(a) == IF a.list THEN [a EXCEPT !.val = KeptClasses(a.val)] ELSE a

\* the attributes of one element after the first loop
CleanAttrs(attrs) ==
    LET kept == SelectSeq(attrs, LAMBDA a : ~AttrRemoved(a))
    IN  [i \in 1..Len(kept) |-> AttrKept(kept[i])]

IsElement(n) == n.tag \notin {"#text", "#comment"}

\* the indices of node i and its descendants
Subtree(t, i) == {j \in i..Len(t) : \A m \in (i + 1)..j : t[m].d > t[i].d}

\* the tree without the nodes whose index is in R
RECURSIVE Without(_, _, _)
Without(t, R, i) ==
    IF i > Len(t) THEN <<>>
    ELSE IF i \in R THEN Without(t, R, i + 1)
    ELSE <<t[i]>> \o Without(t, R, i + 1)

\* for tag in targets: tag.decompose(), targets given by their indices
Decompose(t, targets) ==
    Without(t, UNION {Subtree(t, i) : i \in targets}, 1)

\* re.compile(r'^(v|o|w):') against a tag name
MsoTags == {"o:p", "v:shape", "w:wrap"}

\* style_tag.string: the one child of the element when it is a string
StyleString(t, i) ==
    IF Subtree(t, i) = {i, i + 1} /\ t[i + 1].tag = "#text"
    THEN <<t[i + 1].txt>> ELSE <<>>

clean_mso_attributes(t) ==
    LET t1 == [i \in 1..Len(t) |->
                  IF IsElement(t[i])
                  THEN [t[i] EXCEPT !.attrs = CleanAttrs(t[i].attrs)]
                  ELSE t[i]]
        t2 == Decompose(t1, {i \in 1..Len(t1) : t1[i].tag \in MsoTags})
    IN  Decompose(t2, {i \in 1..Len(t2) :
                         /\ t2[i].tag = "style"
                         /\ StyleString(t2, i) # <<>>
                         /\ ContainsAny(Lower(StyleString(t2, i)[1]), StylePatterns)})

\* not element.get_text(strip=True), for the element at index i when the
\* nodes in R are already decomposed: a decomposed element has no contents
NoText(t, i, R) ==
    \A j \in Subtree(t, i) \ R : t[j].tag = "#text" => Strip(t[j].txt) = <<>>

\* "Remove empty paragraphs and divs": the loop over find_all(['p', 'div'])
\* from index i on, R the indices decomposed so far
RECURSIVE EmptyRemoved(_, _, _)
EmptyRemoved(t, i, R) ==
    IF i > Len(t) THEN R
    ELSE IF t[i].tag \in {"p", "div"} /\ NoText(t, i, R)
         THEN EmptyRemoved(t, i + 1, R \cup Subtree(t, i))
         ELSE EmptyRemoved(t, i + 1, R)

\* clean_html_content with the empty paragraphs removed before the Office
\* elements instead of after them
clean_html_empty_first(t) ==
    LET t0 == SelectSeq(t, LAMBDA n : n.tag # "#comment")
        t1 == Without(t0, EmptyRemoved(t0, 1, {}), 1)
        t2 == clean_mso_attributes(t1)
    IN  Decompose(t2, {i \in 1..Len(t2) : t2[i].tag \in {"script", "style"}})

\* clean_html_content on the parsed tree, up to str(body)
clean_html_content(t) ==
    LET t0 == SelectSeq(t, LAMBDA n : n.tag # "#comment")
        t1 == clean_mso_attributes(t0)
        t2 == Decompose(t1, {i \in 1..Len(t1) : t1[i].tag \in {"script", "style"}})
    IN  Without(t2, EmptyRemoved(t2, 1, {}), 1)

(***************************************************************************)
(* convert_word_html.py : convert_to_markdown, convert_to_text             *)
(***************************************************************************)
\* the maximal whitespace run at the start of s
WsRun(s) == SubSeq(s, 1, Len(s) - Len(LStrip(s)))

\* number of '\n' in s
RECURSIVE Newlines(_)
Newlines(s) ==
    IF s = <<>> THEN 0
    ELSE (IF Head(s) = "\n" THEN 1 ELSE 0) + Newlines(Tail(s))

\* index of the last '\n' of s (s has one)
LastNewline(s) == CHOOSE i \in 1..Len(s) : s[i] = "\n" /\ \A j \in (i + 1)..Len(s) : s[j] # "\n"

BlankThreshold == 3

\* index of the n-th '\n' of s (s has that many)
RECURSIVE NthNewline(_, _)
NthNewline(s, n) ==
    IF Head(s) = "\n"
    THEN (IF n = 1 THEN 1 ELSE 1 + NthNewline(Tail(s), n - 1))
    ELSE 1 + NthNewline(Tail(s), n)

\* CollapseBlank with lazy \s*?: a match ends at the third newline
RECURSIVE CollapseBlankLazy(_)
CollapseBlankLazy(s) ==
    IF s = <<>> THEN <<>>
    ELSE IF Head(s) = "\n" /\ Newlines(WsRun(s)) >= BlankThreshold
         THEN <<"\n", "\n">>
              \o CollapseBlankLazy(From(s, NthNewline(s, BlankThreshold) + 1))
         ELSE <<Head(s)>> \o CollapseBlankLazy(Tail(s))

\* re.sub(r'\n\s*\n\s*\n', '\n\n', s).  A match starts at a '\n' whose
\* whitespace run holds three newlines or more; both \s* are greedy, so it
\* ends at the last newline of that run.
RECURSIVE CollapseBlank(_)
CollapseBlank(s) ==
    IF s = <<>> THEN <<>>
    ELSE IF Head(s) = "\n" /\ Newlines(WsRun(s)) >= BlankThreshold
         THEN <<"\n", "\n">> \o CollapseBlank(From(s, LastNewline(WsRun(s)) + 1))
         ELSE <<Head(s)>> \o CollapseBlank(Tail(s))

Blanks == {" ", "\t"}

\* the maximal run of spaces and tabs at the start of s
RECURSIVE BlankRun(_)
BlankRun(s) == IF s # <<>> /\ Head(s) \in Blanks THEN 1 + BlankRun(Tail(s)) ELSE 0

\* re.sub(r'[ \t]+\n', '\n', s)
RECURSIVE TrimTrailing(_)
TrimTrailing(s) ==
    IF s = <<>> THEN <<>>
    ELSE LET n == BlankRun(s)
         IN  IF n >= 1 /\ n < Len(s) /\ s[n + 1] = "\n"
             THEN <<"\n">> \o TrimTrailing(From(s, n + 2))
             ELSE <<Head(s)>> \o TrimTrailing(Tail(s))

\* re.sub(r'[ \t]+', ' ', s)
RECURSIVE CollapseSpaces(_)
CollapseSpaces(s) ==
    IF s = <<>> THEN <<>>
    ELSE IF Head(s) \in Blanks
         THEN <<" ">> \o CollapseSpaces(From(s, BlankRun(s) + 1))
         ELSE <<Head(s)>> \o CollapseSpaces(Tail(s))

\* convert_to_markdown after h.handle(html_content) returned raw
MarkdownPost(raw) == Strip(TrimTrailing(CollapseBlank(raw)))

\* convert_to_text after soup.get_text() returned raw
TextPost(raw) == Strip(CollapseBlank(CollapseSpaces(raw)))

(***************************************************************************)
(* The two main() functions                                                *)
(***************************************************************************)
InputPath == [extract |-> "docs/analysis.md", convert |-> "analysis.htm"]

NoSection == [how |-> "unset", start |-> -1, end |-> -1, found |-> <<>>, text |-> <<>>]

\* CheckInput without sys.exit(1): the error is printed and the run goes on
CheckInputNoExit ==
    /\ pc = "start"
    /\ io' = io \o << [op |-> "exists", path |-> InputPath[script], data |-> <<>>] >>
               \o (IF inputExists THEN <<>>
                   ELSE << [op |-> "print_error", path |-> InputPath[script], data |-> <<>>] >>)
    /\ pc' = IF script = "extract" THEN "load" ELSE "read"
    /\ UNCHANGED <<script, inputExists, file, rawMd, rawText, exitCode, content,
                   section, papers, k, html, cleaned, markdown, text>>

\* "Check input file exists", of both scripts
CheckInput ==
    /\ pc = "start"
    /\ IF inputExists
       THEN /\ io' = Append(io, [op |-> "exists", path |-> InputPath[script], data |-> <<>>])
            /\ pc' = IF script = "extract" THEN "load" ELSE "read"
            /\ exitCode' = exitCode
       ELSE /\ io' = io \o << [op |-> "exists", path |-> InputPath[script], data |-> <<>>],
                              [op |-> "print_error", path |-> InputPath[script], data |-> <<>>] >>
            /\ pc' = "done"
            /\ exitCode' = 1
    /\ UNCHANGED <<script, inputExists, file, rawMd, rawText, content, section,
                   papers, k, html, cleaned, markdown, text>>

\* content = load_markdown_file(input_file)
ELoad ==
    /\ script = "extract" /\ pc = "load"
    /\ content' = file
    /\ io' = Append(io, [op |-> "read", path |-> InputPath[script], data |-> <<>>])
    /\ pc' = "find"
    /\ UNCHANGED <<script, inputExists, file, rawMd, rawText, exitCode, section,
                   papers, k, html, cleaned, markdown, text>>

\* section_content = find_section(content, target_section_title), and the
\* fallback to the whole document; an AttributeError ends the process
EFind ==
    /\ script = "extract" /\ pc = "find"
    /\ LET r == find_section(content)
       IN  /\ section' = [how |-> r.how, start |-> r.start, end |-> r.end,
                          found |-> r.text,
                          text |-> IF r.text # <<>> THEN r.text ELSE content]
           /\ pc' = IF r.how = "raise" THEN "done" ELSE "extract"
           /\ exitCode' = IF r.how = "raise" THEN 1 ELSE exitCode
    /\ UNCHANGED <<script, inputExists, file, rawMd, rawText, io, content,
                   papers, k, html, cleaned, markdown, text>>

\* papers = extract_papers_from_section(section_content)
EExtract ==
    /\ script = "extract" /\ pc = "extract"
    /\ papers' = extract_papers_from_section(section.text)
    /\ k' = 0
    /\ pc' = "details"
    /\ UNCHANGED <<script, inputExists, file, rawMd, rawText, io, exitCode,
                   content, section, html, cleaned, markdown, text>>

\* one turn of: details = extract_research_details(paper); paper.update(details)
EDetail ==
    /\ script = "extract" /\ pc = "details" /\ k < Len(papers)
    /\ papers' = [papers EXCEPT ![k + 1] = extract_research_details(@) @@ @]
    /\ k' = k + 1
    /\ UNCHANGED <<script, pc, inputExists, file, rawMd, rawText, io, exitCode,
                   content, section, html, cleaned, markdown, text>>

\* output_file.parent.mkdir(parents=True, exist_ok=True)
EMkdir ==
    /\ script = "extract" /\ pc = "details" /\ k = Len(papers)
    /\ io' = Append(io, [op |-> "mkdir", path |-> "analysis", data |-> <<>>])
    /\ pc' = "report"
    /\ UNCHANGED <<script, inputExists, file, rawMd, rawText, exitCode, content,
                   section, papers, k, html, cleaned, markdown, text>>

\* generate_analysis_report(papers, output_file)
EReport ==
    /\ script = "extract" /\ pc = "report"
    /\ io' = Append(io, [op |-> "write", path |-> "analysis/report.md", data |-> papers])
    /\ pc' = "done"
    /\ exitCode' = 0
    /\ UNCHANGED <<script, inputExists, file, rawMd, rawText, content, section,
                   papers, k, html, cleaned, markdown, text>>

\* html_content = read_html_file(input_file)
CRead ==
    /\ script = "convert" /\ pc = "read"
    /\ html' = file
    /\ io' = Append(io, [op |-> "read", path |-> InputPath[script], data |-> <<>>])
    /\ pc' = "clean"
    /\ UNCHANGED <<script, inputExists, file, rawMd, rawText, exitCode, content,
                   section, papers, k, cleaned, markdown, text>>

\* cleaned_html = clean_html_content(html_content)
CClean ==
    /\ script = "convert" /\ pc = "clean"
    /\ cleaned' = clean_html_content(html)
    /\ pc' = "markdown"
    /\ UNCHANGED <<script, inputExists, file, rawMd, rawText, io, exitCode,
                   content, section, papers, k, html, markdown, text>>

\* markdown_content = convert_to_markdown(cleaned_html)
CMarkdown ==
    /\ script = "convert" /\ pc = "markdown"
    /\ markdown' = MarkdownPost(rawMd)
    /\ pc' = "text"
    /\ UNCHANGED <<script, inputExists, file, rawMd, rawText, io, exitCode,
                   content, section, papers, k, html, cleaned, text>>

\* text_content = convert_to_text(cleaned_html)
CText ==
    /\ script = "convert" /\ pc = "text"
    /\ text' = TextPost(rawText)
    /\ pc' = "mkdir"
    /\ UNCHANGED <<script, inputExists, file, rawMd, rawText, io, exitCode,
                   content, section, papers, k, html, cleaned, markdown>>

\* output_md.parent.mkdir(parents=True, exist_ok=True)
CMkdir ==
    /\ script = "convert" /\ pc = "mkdir"
    /\ io' = Append(io, [op |-> "mkdir", path |-> "docs", data |-> <<>>])
    /\ pc' = "writemd"
    /\ UNCHANGED <<script, inputExists, file, rawMd, rawText, exitCode, content,
                   section, papers, k, html, cleaned, markdown, text>>

\* with open(output_md, 'w') as f: f.write(markdown_content)
CWriteMd ==
    /\ script = "convert" /\ pc = "writemd"
    /\ io' = Append(io, [op |-> "write", path |-> "docs/analysis.md", data |-> markdown])
    /\ pc' = "writetxt"
    /\ UNCHANGED <<script, inputExists, file, rawMd, rawText, exitCode, content,
                   section, papers, k, html, cleaned, markdown, text>>

\* with open(output_txt, 'w') as f: f.write(text_content)
CWriteTxt ==
    /\ script = "convert" /\ pc = "writetxt"
    /\ io' = Append(io, [op |-> "write", path |-> "docs/analysis.txt", data |-> text])
    /\ pc' = "done"
    /\ exitCode' = 0
    /\ UNCHANGED <<script, inputExists, file, rawMd, rawText, content, section,
                   papers, k, html, cleaned, markdown, text>>

NextExtract == CheckInput \/ ELoad \/ EFind \/ EExtract \/ EDetail \/ EMkdir \/ EReport

NextConvert ==
    CheckInput \/ CRead \/ CClean \/ CMarkdown \/ CText \/ CMkdir \/ CWriteMd \/ CWriteTxt

NextClean == CheckInput \/ CRead \/ CClean

Next ==
    \/ CheckInput
    \/ ELoad \/ EFind \/ EExtract \/ EDetail \/ EMkdir \/ EReport
    \/ CRead \/ CClean \/ CMarkdown \/ CText \/ CMkdir \/ CWriteMd \/ CWriteTxt

(***************************************************************************)
(* Inputs                                                                  *)
(***************************************************************************)
\* all sequences over S of length lo..hi
SeqsOf(S, lo, hi) == UNION {[1..n -> S] : n \in lo..hi}

RECURSIVE Concat(_)
Concat(ss) == IF ss = <<>> THEN <<>> ELSE Head(ss) \o Concat(Tail(ss))

RECURSIVE JoinPipes(_)
JoinPipes(cs) ==
    IF cs = <<>> THEN <<>>
    ELSE IF Len(cs) = 1 THEN cs[1]
    ELSE cs[1] \o <<"|">> \o JoinPipes(Tail(cs))

Link == <<"[", "T", "]", "(", "u", ")">>

\* Lines of a Markdown document.  Every document is the '\n'-join of its
\* lines, so documents are built from a menu of lines.
LineMenu ==
    { <<>>,
      <<"#", " ">> \o Title,                        \* exact heading
      <<" ", "#", " ">> \o Title,                   \* exact heading, indented
      <<"#", "#", " ", "a">> \o Title \o <<" ">>,   \* heading containing the title
      <<"#", " ", "fuza", "a", "ziran", "guocheng", "jili", "jieshi">>,
      <<"a">> \o Title,                             \* the title in running text
      <<"#", " ", "a">>,
      <<"#", "#", " ", "a">>,
      <<"#", "a">>,                                 \* no heading: no space
      <<"a", " ", "diman">>,                        \* a keyword of the fallback
      <<"#", " ", "dizhen">>,                       \* a keyword in a heading only
      <<"-", "-", "-", "|", "-", "-", "-">>,
      <<"*", "*", "wenzhang", "*", "*", "|", "[", "a", "]", "(", "b", ")">>,
      <<"a", " ">> \o Link,                         \* a link inside the line
      <<" ">> \o Link \o <<"|", "a", " ", "*", "*", " ", "b", " ">> }

MaxLines == 3

Docs == {JoinLines(ls) : ls \in SeqsOf(LineMenu, 1, MaxLines)}

\* Cells of a table row after the link
TableCells ==
    { <<>>, <<"c">>, <<"a", " ", "*", "*", " ", "b">>, <<"moxing", " ", " ", "a">> }

MaxCells == 5

\* rows of up to MaxCells cells after the first one
TableRows ==
    {Strip(Link \o JoinPipes(cs)) : cs \in SeqsOf(TableCells, 1, MaxCells + 1)}

\* Pieces of an irregular row
Snips ==
    { <<"|">>,
      <<" ", "qierukou", ":", " ">>,
      <<"hexin", "wenti", "fwcolon", "a">>,
      <<"fangfa", ":", " ">>,
      <<"jishu", ":", "b", " ", " ", "*", "*", "c", "*", "*">>,
      <<"moxing", " ", " ", "a">>,
      <<"*", "*", "a", "wenti", "*", "*">>,
      <<"fwlparen", "1", "fwrparen">> }

MaxSnips == 3

IrregularRows == {Strip(Link \o Concat(ss)) : ss \in SeqsOf(Snips, 0, MaxSnips)}

\* the row of the round-trip scenario: [T](http://x)|core|src|method|concl|sum
ScenarioRow ==
    <<"[", "T", "]", "(", "http://x", ")", "|", "core", "|", "src", "|",
      "method", "|", "concl", "|", "sum">>

Rows == TableRows \cup IrregularRows \cup {ScenarioRow}

\* Nodes of a parsed HTML document, without their depth
NoAttrs == <<>>

WordAttrs ==
    << [name |-> "style", list |-> FALSE, val |-> <<"mso", "-", "x">>],
       [name |-> "id", list |-> FALSE, val |-> <<"mso", "x">>],
       [name |-> "class", list |-> TRUE, val |-> << <<"Mso", "x">> >>],
       [name |-> "rel", list |-> TRUE, val |-> << <<"Mso", "x">>, <<"x">> >>] >>

NodeMenu ==
    { [tag |-> "#text", txt |-> <<"mso", "-">>, attrs |-> NoAttrs],
      [tag |-> "#text", txt |-> <<" ">>, attrs |-> NoAttrs],
      [tag |-> "#comment", txt |-> <<"x">>, attrs |-> NoAttrs],
      [tag |-> "p", txt |-> <<>>, attrs |-> NoAttrs],
      [tag |-> "div", txt |-> <<>>, attrs |-> NoAttrs],
      [tag |-> "span", txt |-> <<>>, attrs |-> WordAttrs],
      [tag |-> "o:p", txt |-> <<>>, attrs |-> NoAttrs],
      [tag |-> "style", txt |-> <<>>, attrs |-> NoAttrs] }

MaxNodes == 3

Node(n, d) == [d |-> d, tag |-> n.tag, txt |-> n.txt, attrs |-> n.attrs]

\* what a parser can build: document order with depths, children only
\* below elements, only a string below a style element
WellFormed(t) ==
    /\ Len(t) >= 1 => t[1].d = 0
    /\ \A i \in 1..(Len(t) - 1) :
          /\ t[i + 1].d <= t[i].d + 1
          /\ t[i + 1].d = t[i].d + 1 => IsElement(t[i])
          /\ (t[i + 1].d = t[i].d + 1 /\ t[i].tag = "style") => t[i + 1].tag = "#text"

\* the well-formed trees of n nodes, built node by node
RECURSIVE TreesOfLen(_)
TreesOfLen(n) ==
    IF n = 0 THEN {<<>>}
    ELSE {t \in {Append(u, Node(m, d)) :
                    u \in TreesOfLen(n - 1), m \in NodeMenu, d \in 0..(n - 1)} :
             WellFormed(t)}

Trees == UNION {TreesOfLen(n) : n \in 0..MaxNodes}

\* Strings the HTML-to-text libraries return
TextSymbols == {"a", " ", "\n"}

MaxLen == 8

Texts == SeqsOf(TextSymbols, 0, MaxLen)

\* the inputs of a whole run of the converter
MainTrees ==
    { <<>>,
      << Node([tag |-> "p", txt |-> <<>>, attrs |-> NoAttrs], 0),
         Node([tag |-> "#text", txt |-> <<"mso", "-">>, attrs |-> NoAttrs], 1) >>,
      << Node([tag |-> "div", txt |-> <<>>, attrs |-> NoAttrs], 0),
         Node([tag |-> "o:p", txt |-> <<>>, attrs |-> NoAttrs], 1) >> }

MainTexts ==
    { <<>>, <<"a", " ", "\n", "\n", "\n", "\n", "a", " ">>, <<"a", "\n", "a">> }

(***************************************************************************)
(* Specifications                                                          *)
(***************************************************************************)
InitCommon ==
    /\ pc = "start"
    /\ io = <<>>
    /\ exitCode = -1
    /\ content = <<>>
    /\ section = NoSection
    /\ papers = <<>>
    /\ k = 0
    /\ html = <<>>
    /\ cleaned = <<>>
    /\ markdown = <<>>
    /\ text = <<>>

\* a run of either script
Init ==
    /\ InitCommon
    /\ inputExists \in BOOLEAN
    /\ script \in {"extract", "convert"}
    /\ IF script = "extract"
       THEN file \in Docs /\ rawMd = <<>> /\ rawText = <<>>
       ELSE file \in MainTrees /\ rawMd \in MainTexts /\ rawText \in MainTexts

Spec == Init /\ [][Next]_vars

\* the extractor run on a document that is one table row
InitRows ==
    /\ InitCommon
    /\ inputExists = TRUE
    /\ script = "extract"
    /\ file \in Rows /\ rawMd = <<>> /\ rawText = <<>>

SpecRows == InitRows /\ [][NextExtract]_vars

\* the converter's cleanup on every small tree
InitClean ==
    /\ InitCommon
    /\ inputExists = TRUE
    /\ script = "convert"
    /\ file \in Trees /\ rawMd = <<>> /\ rawText = <<>>

SpecClean == InitClean /\ [][NextClean]_vars

\* the converter's renderers on every short library output
InitRender ==
    /\ InitCommon
    /\ inputExists = TRUE
    /\ script = "convert"
    /\ file = <<>>
    /\ rawMd \in Texts /\ rawText = rawMd

SpecRender == InitRender /\ [][NextConvert]_vars

(***************************************************************************)
(* Claims                                                                  *)
(***************************************************************************)
\* the extractor has located the section
Located == script = "extract" /\ section.how \in {"heading", "keywords", "none"}

\* the extractor has built the list of papers
Extracted ==
    /\ script = "extract"
    /\ pc \in {"details", "report"} \/ (pc = "done" /\ exitCode = 0)

\* the second pass has run over every paper
Detailed == Extracted /\ k = Len(papers)

SourceLines == SplitLines(content)

\* C1: zero fabrication.  Every record's context is a contiguous substring
\* of the source Markdown, namely one source line stripped, and its title
\* and url are substrings of that context, however the section was found.
C1_ZeroFabrication ==
    \A i \in 1..Len(papers) :
        /\ IsSubstring(papers[i].context, content)
        /\ \E j \in 1..Len(SourceLines) : papers[i].context = Strip(SourceLines[j])
        /\ IsSubstring(papers[i].title, papers[i].context)
        /\ IsSubstring(papers[i].url, papers[i].context)

\* C1 witness: a record from the keyword-block fallback, whose source line
\* had whitespace around it, after the second pass
C1_Witness ==
    /\ Detailed /\ section.how = "keywords" /\ papers # <<>>
    /\ \E j \in 1..Len(SourceLines) :
          /\ papers[1].context = Strip(SourceLines[j])
          /\ papers[1].context # SourceLines[j]

\* the other two ways of obtaining a section also yield records
C1_WitnessHeading == Detailed /\ section.how = "heading" /\ papers # <<>>

C1_WitnessWholeDocument == Detailed /\ section.how = "none" /\ papers # <<>>

\* "one or more '#', optional whitespace, the title, nothing else after
\* trimming"
IsExactHeading(l) ==
    LET s == Strip(l)
    IN  LeadingHashes(s) >= 1 /\ LStrip(From(s, LeadingHashes(s) + 1)) = Title

\* a heading line of level at most lvl: hashes, then whitespace
IsHeadingUpTo(l, lvl) ==
    IsHeader(Strip(l)) /\ LeadingHashes(Strip(l)) <= lvl

\* the range [first, last] (1-based lines) the claim describes
ExpectedFirst == Least({i \in 1..Len(SourceLines) : IsExactHeading(SourceLines[i])})

ExpectedLast ==
    LET lvl == LeadingHashes(Strip(SourceLines[ExpectedFirst]))
        nxt == {i \in (ExpectedFirst + 1)..Len(SourceLines) :
                   IsHeadingUpTo(SourceLines[i], lvl)}
    IN  IF nxt = {} THEN Len(SourceLines) ELSE Least(nxt) - 1

\* C2: with an exact heading in the document, find_section returns the
\* lines from the first exact heading to the line before the next heading
\* of the same or a shallower level (or to the end of the document).
C2_ExactHeadingRange ==
    (script = "extract" /\ section.how # "unset" /\ ExpectedFirst # 0) =>
        /\ section.how = "heading"
        /\ section.start + 1 = ExpectedFirst
        /\ section.end = ExpectedLast
        /\ section.found = JoinLines(SubSeq(SourceLines, ExpectedFirst, ExpectedLast))

\* C2 on the documents whose first exact heading has no whitespace before
\* its '#': the part of the claim the code satisfies
C2_ExactHeadingRangeUnindented ==
    (script = "extract" /\ section.how # "unset" /\ ExpectedFirst # 0
       /\ LeadingHashes(SourceLines[ExpectedFirst]) >= 1) =>
        /\ section.how = "heading"
        /\ section.start + 1 = ExpectedFirst
        /\ section.end = ExpectedLast
        /\ section.found = JoinLines(SubSeq(SourceLines, ExpectedFirst, ExpectedLast))

\* C3: parsing never fails.  find_section does not raise, so a run whose
\* input file exists ends with status 0.
C3_NeverRaises ==
    /\ section.how # "raise"
    /\ (script = "extract" /\ pc = "done" /\ inputExists) => exitCode = 0

\* a Markdown link construct [text](url) at the start of l
StartsWithLink(l) ==
    \E a \in 3..Len(l) : \E b \in (a + 3)..Len(l) :
        /\ l[1] = "[" /\ l[a] = "]" /\ l[a + 1] = "(" /\ l[b] = ")"
        /\ \A i \in 2..(a - 1) : l[i] # "]"
        /\ \A i \in (a + 2)..(b - 1) : l[i] # ")"

\* the qualification rule of the row splitter, on a trimmed line
Qualifies(l) ==
    /\ l # <<>>
    /\ ~StartsWith(l, <<"-", "-", "-", "|">>)
    /\ ~StartsWith(l, <<"*", "*", "wenzhang", "*", "*">>)
    /\ StartsWithLink(l)

TrimmedSectionLines ==
    LET ls == SplitLines(section.text) IN [i \in 1..Len(ls) |-> Strip(ls[i])]

\* C4: the records are exactly the qualifying lines of the section, one
\* record per line and in order; every rawRow starts with a link.
C4_RowQualification ==
    Extracted =>
        /\ [i \in 1..Len(papers) |-> papers[i].context]
              = SelectSeq(TrimmedSectionLines, Qualifies)
        /\ \A i \in 1..Len(papers) :
              StartsWithLink(papers[i].context) /\ papers[i].number = i

\* C4 witness: a section with a qualifying line and lines of each kind the
\* rule rejects (a link inside the line, a bolded header label)
C4_Witness ==
    /\ Extracted /\ Len(papers) = 1
    /\ \E i \in 1..Len(TrimmedSectionLines) :
          /\ ~Qualifies(TrimmedSectionLines[i])
          /\ Contains(TrimmedSectionLines[i], Link)
    /\ Len(TrimmedSectionLines) = 3

\* s split at every pipe, the whitespace left where it is
RECURSIVE PlainCells(_)
PlainCells(s) ==
    LET i == FirstIn(s, {"|"})
    IN  IF i > Len(s) THEN <<s>>
        ELSE <<SubSeq(s, 1, i - 1)>> \o PlainCells(From(s, i + 1))

\* the row splits on pipes into at least six parts
SixColumns(p) == Len(PlainCells(p.context)) >= 6

\* part n (0-based) of the row after the whitespace/bold cleanup
Column(p, n) == CleanCell(Strip(PlainCells(p.context)[n + 1]))

\* the record's title and url are the T and U of the row's leading [T](U)
LinkOfRow(p) ==
    /\ StartsWith(p.context, <<"[">> \o p.title \o <<"]", "(">> \o p.url \o <<")">>)
    /\ p.title # <<>> /\ ~Contains(p.title, <<"]">>)
    /\ p.url # <<>> /\ ~Contains(p.url, <<")">>)

\* the record of the round-trip scenario
ScenarioRecord ==
    [title |-> <<"T">>, url |-> <<"http://x">>, context |-> ScenarioRow, number |-> 1,
     core_problem |-> <<"core">>, data_source |-> <<"src">>,
     data_mining_methods |-> <<"method">>, conclusion |-> <<"concl">>,
     summary |-> <<"sum">>, research_entry_point |-> <<"core">>]

\* C5 as stated: a row of at least six parts yields one record whose title
\* and url come from the link and whose five fields are parts 1..5, and the
\* five fields still have these values after the second pass.
C5_SixColumnMapping ==
    Extracted =>
        /\ (Len(SourceLines) = 1 /\ Len(PlainCells(Strip(content))) >= 6
              /\ StartsWithLink(Strip(content))) => Len(papers) = 1
        /\ \A i \in 1..Len(papers) :
              SixColumns(papers[i]) =>
                 /\ LinkOfRow(papers[i])
                 /\ papers[i].core_problem = Column(papers[i], 1)
                 /\ papers[i].data_source = Column(papers[i], 2)
                 /\ papers[i].data_mining_methods = Column(papers[i], 3)
                 /\ papers[i].conclusion = Column(papers[i], 4)
                 /\ papers[i].summary = Column(papers[i], 5)

\* C5 as amended: the same, except that after the second pass the methods
\* field is part 3 only when part 3 is not empty; an empty methods column
\* may have been filled from the raw row.  The scenario row yields the
\* record of the scenario.
C5_SixColumnMappingAmended ==
    Extracted =>
        /\ (Len(SourceLines) = 1 /\ Len(PlainCells(Strip(content))) >= 6
              /\ StartsWithLink(Strip(content))) => Len(papers) = 1
        /\ \A i \in 1..Len(papers) :
              SixColumns(papers[i]) =>
                 /\ LinkOfRow(papers[i])
                 /\ papers[i].core_problem = Column(papers[i], 1)
                 /\ papers[i].data_source = Column(papers[i], 2)
                 /\ (i > k \/ Column(papers[i], 3) # <<>>) =>
                        papers[i].data_mining_methods = Column(papers[i], 3)
                 /\ papers[i].conclusion = Column(papers[i], 4)
                 /\ papers[i].summary = Column(papers[i], 5)
        /\ (Detailed /\ content = ScenarioRow) => papers = <<ScenarioRecord>>

\* C5 witness: a six-part row after the second pass, its columns cleaned
\* of whitespace runs and bold markers
C5_Witness ==
    /\ Detailed /\ Len(papers) = 1 /\ SixColumns(papers[1])
    /\ PlainCells(papers[1].context)[4] = <<"a", " ", "*", "*", " ", "b">>
    /\ papers[1].data_mining_methods = <<"a", " ", " ", "b">>
    /\ papers[1].summary = <<"moxing", " ", "a">>

\* C6: with the input file missing, main() prints an error naming the path
\* and exits with status 1 having done nothing but the existence check,
\* which is the first I/O step of every run; and a write happens only after
\* the read and with the finished results of cleaning and conversion or
\* extraction.
C6_MissingInput ==
    /\ (io # <<>>) => io[1] = [op |-> "exists", path |-> InputPath[script], data |-> <<>>]
    /\ ~inputExists =>
          /\ \A i \in 1..Len(io) : io[i].op \in {"exists", "print_error"}
          /\ pc = "done" =>
                /\ exitCode = 1
                /\ io = << [op |-> "exists", path |-> InputPath[script], data |-> <<>>],
                           [op |-> "print_error", path |-> InputPath[script], data |-> <<>>] >>
    /\ \A i \in 1..Len(io) :
          io[i].op = "write" =>
             /\ inputExists
             /\ \E j \in 1..(i - 1) : io[j].op = "read"
             /\ script = "convert" =>
                   /\ html = file /\ cleaned = clean_html_content(html)
                   /\ markdown = MarkdownPost(rawMd) /\ text = TextPost(rawText)
                   /\ io[i].data = (IF io[i].path = "docs/analysis.md" THEN markdown ELSE text)
             /\ script = "extract" =>
                   /\ Detailed
                   /\ io[i].data = papers

\* C6 witness: the converter has ended on a missing input file
C6_Witness == script = "convert" /\ ~inputExists /\ pc = "done" /\ exitCode = 1

\* the same for the extractor, and a run that wrote
C6_WitnessExtract == script = "extract" /\ ~inputExists /\ pc = "done" /\ exitCode = 1

C6_WitnessWrote == pc = "done" /\ \E i \in 1..Len(io) : io[i].op = "write"

\* C7: cleaning an already-cleaned tree changes nothing.
C7_CleanIdempotent ==
    (script = "convert" /\ pc = "markdown") => clean_html_content(cleaned) = cleaned

\* C7 witness: a paragraph that is empty only once its Office child, which
\* holds the text, is removed
C7_Witness ==
    /\ script = "convert" /\ pc = "markdown"
    /\ Len(html) = 3 /\ cleaned = <<>>
    /\ html[1].tag = "p" /\ html[2].tag = "o:p" /\ html[2].d = 1
    /\ html[3].tag = "#text" /\ html[3].d = 2 /\ Strip(html[3].txt) # <<>>

\* nested empty elements
C7_WitnessNested ==
    /\ script = "convert" /\ pc = "markdown"
    /\ Len(html) = 3 /\ cleaned = <<>>
    /\ html[1].tag = "div" /\ html[2].tag = "p" /\ html[2].d = 1
    /\ html[3].tag = "div" /\ html[3].d = 2

IsBlankLine(l) == \A i \in 1..Len(l) : IsWs(l[i])

\* no three consecutive blank lines
NoBlankRun(s) ==
    LET ls == SplitLines(s)
    IN  \A i \in 1..(Len(ls) - 2) :
            ~(IsBlankLine(ls[i]) /\ IsBlankLine(ls[i + 1]) /\ IsBlankLine(ls[i + 2]))

\* no line ends with a space or a tab
NoTrailingBlank(s) ==
    LET ls == SplitLines(s)
    IN  \A i \in 1..Len(ls) : ls[i] = <<>> \/ ls[i][Len(ls[i])] \notin Blanks

\* C8: the Markdown and the text have no run of three blank lines, the
\* Markdown has no line ending in a space or tab, and one pass of the
\* collapsing rule is enough: another pass changes nothing.
C8_BlankLines ==
    /\ (script = "convert" /\ pc \in {"text", "mkdir", "writemd", "writetxt"}) =>
          /\ NoBlankRun(markdown) /\ NoTrailingBlank(markdown)
          /\ CollapseBlank(markdown) = markdown
    /\ (script = "convert" /\ pc \in {"mkdir", "writemd", "writetxt"}) =>
          /\ NoBlankRun(text)
          /\ CollapseBlank(text) = text

\* C8 witness: the library returned five blank lines in a row, some of them
\* holding spaces, and both renderers have run
C8_Witness ==
    /\ script = "convert" /\ pc = "mkdir"
    /\ rawMd = <<"a", "\n", " ", "\n", "\n", "\n", "\n", "a">>
    /\ markdown = <<"a", "\n", "\n", "a">> /\ text = markdown

\* no "**" and no two adjacent whitespace characters
NormalForm(v) ==
    /\ ~Contains(v, <<"*", "*">>)
    /\ \A i \in 1..(Len(v) - 1) : ~(IsWs(v[i]) /\ IsWs(v[i + 1]))

\* C9: every extracted field value is free of bold markers and of
\* whitespace runs, whichever branch produced it.
C9_FieldNormalForm ==
    \A i \in 1..Len(papers) :
        /\ NormalForm(papers[i].core_problem)
        /\ NormalForm(papers[i].data_source)
        /\ NormalForm(papers[i].data_mining_methods)
        /\ NormalForm(papers[i].conclusion)
        /\ NormalForm(papers[i].summary)
        /\ i <= k => NormalForm(papers[i].research_entry_point)

\* the values of the first pass are in normal form when no cell holds a
\* bold marker next to whitespace: the part of C9 the code satisfies
C9_FirstPassPlainCells ==
    \A i \in 1..Len(papers) :
        (i > k /\ ~Contains(papers[i].context, <<"*", "*">>)) =>
            /\ NormalForm(papers[i].core_problem)
            /\ NormalForm(papers[i].data_mining_methods)
            /\ NormalForm(papers[i].summary)

\* the cleaned value of the first pattern of ps whose capture in s is not
\* empty after cleanup; <<>> when there is none
RECURSIVE FirstNonEmpty(_, _)
FirstNonEmpty(ps, s) ==
    IF ps = <<>> THEN <<>>
    ELSE IF Search(Head(ps), s) # <<>> /\ CleanDetail(Search(Head(ps), s)[1]) # <<>>
         THEN CleanDetail(Search(Head(ps), s)[1])
         ELSE FirstNonEmpty(Tail(ps), s)

\* some pattern of ps matches in s
AnyHit(ps, s) == \E n \in 1..Len(ps) : Search(ps[n], s) # <<>>

\* C10: where the first pass left a field empty, the second pass takes the
\* first pattern, in the fixed order, whose match is not empty; for the
\* methods the bare technical terms are searched only when no labelled
\* pattern hits.
C10_FirstNonEmptyWins ==
    \A i \in 1..Len(papers) :
        i <= k =>
           /\ papers[i].core_problem = <<>> =>
                 papers[i].research_entry_point =
                     FirstNonEmpty(entry_patterns, papers[i].context)
           /\ extract_table_cells_from_line(papers[i].context).data_mining_methods = <<>> =>
                 papers[i].data_mining_methods =
                     (IF AnyHit(method_patterns, papers[i].context)
                      THEN FirstNonEmpty(method_patterns, papers[i].context)
                      ELSE FirstNonEmpty(tech_patterns, papers[i].context))

\* the part of C10 the code satisfies: rows in which every labelled pattern
\* that matches has a non-empty capture
C10_FirstMatchWins ==
    \A i \in 1..Len(papers) :
        (i <= k /\ papers[i].core_problem = <<>>
           /\ \A n \in 1..Len(entry_patterns) :
                 Search(entry_patterns[n], papers[i].context) # <<>> =>
                    CleanDetail(Search(entry_patterns[n], papers[i].context)[1]) # <<>>) =>
            papers[i].research_entry_point =
                FirstNonEmpty(entry_patterns, papers[i].context)

\* the records as the first pass built them
FirstPass == extract_papers_from_section(section.text)

\* the second pass left the fields of the first pass alone
FrameKept(f, p) ==
    /\ p.title = f.title /\ p.url = f.url /\ p.context = f.context
    /\ p.number = f.number
    /\ p.core_problem = f.core_problem /\ p.data_source = f.data_source
    /\ p.conclusion = f.conclusion /\ p.summary = f.summary
    /\ f.data_mining_methods # <<>> => p.data_mining_methods = f.data_mining_methods

\* C11 as stated: with coreProblem and dataSource populated the second pass
\* takes researchEntryPoint and methods from the populated values and does
\* not re-parse the row; it always leaves title, url, rawRow, number,
\* coreProblem, dataSource, conclusion and summary unchanged and never
\* replaces a non-empty methods value.
C11_PopulatedNotReparsed ==
    Extracted =>
        /\ Len(papers) = Len(FirstPass)
        /\ \A i \in 1..k :
              /\ FrameKept(FirstPass[i], papers[i])
              /\ (FirstPass[i].core_problem # <<>> /\ FirstPass[i].data_source # <<>>) =>
                    /\ papers[i].research_entry_point = FirstPass[i].core_problem
                    /\ papers[i].data_mining_methods = FirstPass[i].data_mining_methods

\* C11 as amended: researchEntryPoint is coreProblem when coreProblem is
\* populated, methods is kept when methods is populated, and an empty one
\* of the two is re-derived from the raw row whatever the other columns
\* hold: dataSource plays no part.  The frame is as stated.
C11_PopulatedPreferred ==
    Extracted =>
        /\ Len(papers) = Len(FirstPass)
        /\ \A i \in 1..k :
              /\ FrameKept(FirstPass[i], papers[i])
              /\ papers[i].research_entry_point =
                    (IF FirstPass[i].core_problem # <<>>
                     THEN FirstPass[i].core_problem
                     ELSE ResearchEntry(<<>>, FirstPass[i].context))
              /\ FirstPass[i].data_mining_methods = <<>> =>
                    papers[i].data_mining_methods = Methods(<<>>, FirstPass[i].context)

\* C11 witness: all three columns populated, re-parsing the row would find
\* another methods value, and the populated values were taken
C11_Witness ==
    /\ Detailed /\ Len(papers) = 1
    /\ FirstPass[1].core_problem # <<>> /\ FirstPass[1].data_source # <<>>
    /\ FirstPass[1].data_mining_methods # <<>>
    /\ Methods(<<>>, FirstPass[1].context) # FirstPass[1].data_mining_methods
    /\ Methods(<<>>, FirstPass[1].context) # <<>>
    /\ papers[1].data_mining_methods = FirstPass[1].data_mining_methods
    /\ papers[1].research_entry_point = FirstPass[1].core_problem

\* coreProblem and dataSource populated, the methods column empty, and the
\* methods re-derived from the row
C11_WitnessReparsed ==
    /\ Detailed /\ Len(papers) = 1
    /\ FirstPass[1].core_problem # <<>> /\ FirstPass[1].data_source # <<>>
    /\ FirstPass[1].data_mining_methods = <<>>
    /\ papers[1].data_mining_methods # <<>>

\* no line matches any of the four title patterns
NoTitleLine ==
    \A i \in 1..Len(SourceLines) :
        \A n \in 1..NumPatterns : ~PatternMatches(n, Strip(SourceLines[i]))

\* the lines (1-based) that are headings
HeadingLines == {i \in 1..Len(SourceLines) : IsHeader(SourceLines[i])}

\* the first lines of the heading-delimited blocks: every heading, and line 1
\* when the document opens with text
BlockStarts == HeadingLines \cup {1}

\* the last line of the block that starts at line a
BlockLast(a) ==
    Least({i \in a..Len(SourceLines) : i = Len(SourceLines) \/ (i + 1) \in HeadingLines})

\* the lines of the block after its heading
BlockBody(a) ==
    SubSeq(SourceLines, IF a \in HeadingLines THEN a + 1 ELSE a, BlockLast(a))

\* the whole block, its heading included
BlockText(a) == SubSeq(SourceLines, a, BlockLast(a))

\* C12: with no line matching a title pattern, find_section returns the
\* first heading-delimited block whose body, the lines after its heading,
\* holds a domain keyword; with no such block it returns nothing and main()
\* takes the whole document as the section.
C12_KeywordBlockFallback ==
    (Located /\ NoTitleLine) =>
        LET Q == {a \in BlockStarts : HasKeyword(JoinLines(BlockBody(a)))}
        IN  IF Q # {}
            THEN /\ section.how = "keywords"
                 /\ section.found = JoinLines(BlockText(Least(Q)))
                 /\ section.text = section.found
            ELSE /\ section.how = "none"
                 /\ section.text = content

\* what the code does: the keyword is looked for in the block's text with
\* its heading line
C12_KeywordBlockWithHeading ==
    (Located /\ NoTitleLine) =>
        LET Q == {a \in BlockStarts : HasKeyword(JoinLines(BlockText(a)))}
        IN  IF Q # {}
            THEN /\ section.how = "keywords"
                 /\ section.found = JoinLines(BlockText(Least(Q)))
                 /\ section.text = section.found
            ELSE /\ section.how = "none"
                 /\ section.text = content

\* a second block was returned because its body holds the keyword
C12_WitnessSecondBlock ==
    /\ Located /\ NoTitleLine /\ section.how = "keywords"
    /\ Len(SourceLines) = 3 /\ HeadingLines = {1, 2}
    /\ HasKeyword(SourceLines[3]) /\ ~HasKeyword(SourceLines[2])
    /\ section.found = JoinLines(SubSeq(SourceLines, 2, 3))

\* a block was returned for the keyword in its heading alone
C12_WitnessHeadingOnly ==
    /\ Located /\ NoTitleLine /\ section.how = "keywords"
    /\ Len(SourceLines) = 2 /\ HeadingLines = {2}
    /\ HasKeyword(SourceLines[2]) /\ ~HasKeyword(SourceLines[1])
    /\ section.found = SourceLines[2]

====
